---- MODULE Spec2Model ----
(***************************************************************************)
(* Model of github.com/zerjioang/time32: the compact Time / Duration      *)
(* arithmetic of ticker.go (a pointer-free copy of Go's time package) and  *)
(* the lastEpoch refresh cache that package init starts.                   *)
(*                                                                         *)
(* Go's int64 / uint64 values are kept at their full width.  A 64-bit word *)
(* is a sequence of four 16-bit limbs, least significant first, in two's   *)
(* complement; int32 values and small counts are plain integers.           *)
(***************************************************************************)
EXTENDS Integers, Sequences, FiniteSets, TLC

(***************************************************************************)
(* 64-bit machine words.                                                   *)
(***************************************************************************)
Base == 2^16
Half == 2^15

Zero64 == <<0, 0, 0, 0>>
One64 == <<1, 0, 0, 0>>

\* a + b modulo 2^64 (Go's wrapping + on int64 and uint64)
Add64(a, b) ==
  LET s1 == a[1] + b[1]
      s2 == a[2] + b[2] + (s1 \div Base)
      s3 == a[3] + b[3] + (s2 \div Base)
      s4 == a[4] + b[4] + (s3 \div Base)
  IN  <<s1 % Base, s2 % Base, s3 % Base, s4 % Base>>

\* ^a
Not64(a) == <<Base - 1 - a[1], Base - 1 - a[2], Base - 1 - a[3], Base - 1 - a[4]>>

\* -a modulo 2^64
Neg64(a) == Add64(Not64(a), One64)

\* a - b modulo 2^64
Sub64(a, b) == Add64(a, Neg64(b))

\* the sign bit of a word read as int64
IsNeg64(a) == a[4] >= Half

\* a < b, both read as uint64
LtU64(a, b) ==
  IF a[4] # b[4] THEN a[4] < b[4]
  ELSE IF a[3] # b[3] THEN a[3] < b[3]
  ELSE IF a[2] # b[2] THEN a[2] < b[2]
  ELSE a[1] < b[1]

\* a < b, both read as int64
LtS64(a, b) == IF IsNeg64(a) # IsNeg64(b) THEN IsNeg64(a) ELSE LtU64(a, b)

LeS64(a, b) == a = b \/ LtS64(a, b)

\* the word holding the integer n, for n an int32 (sign-extended, as Go's
\* int64(n) and uint64(n) conversions of an int32 do)
FromInt(n) ==
  IF n >= 0 THEN <<n % Base, n \div Base, 0, 0>>
  ELSE Neg64(<<(-n) % Base, (-n) \div Base, 0, 0>>)

\* a * k modulo 2^64, for 0 <= k < 2^15
MulSmall64(a, k) ==
  LET p1 == a[1] * k
      p2 == a[2] * k + (p1 \div Base)
      p3 == a[3] * k + (p2 \div Base)
      p4 == a[4] * k + (p3 \div Base)
  IN  <<p1 % Base, p2 % Base, p3 % Base, p4 % Base>>

\* a shifted left by n whole limbs
ShlLimbs64(a, n) ==
  LET limb(i) == IF i - n >= 1 THEN a[i - n] ELSE 0
  IN  <<limb(1), limb(2), limb(3), limb(4)>>

\* a << n, 0 <= n < 64
Shl64(a, n) ==
  LET y == ShlLimbs64(a, n \div 16)
      b == n % 16
      limb(i) == ((y[i] * 2^b) % Base)
                 + (IF i > 1 THEN y[i - 1] \div 2^(16 - b) ELSE 0)
  IN  <<limb(1), limb(2), limb(3), limb(4)>>

\* a >> n on uint64 (logical), 0 <= n < 64
Shr64(a, n) ==
  LET k == n \div 16
      b == n % 16
      y(i) == IF i + k <= 4 THEN a[i + k] ELSE 0
      limb(i) == (y(i) \div 2^b) + ((y(i + 1) % 2^b) * 2^(16 - b))
  IN  <<limb(1), limb(2), limb(3), limb(4)>>

RECURSIVE AndNat(_, _)
\* bitwise and of two limbs
AndNat(a, b) ==
  IF a = 0 \/ b = 0 THEN 0
  ELSE ((a % 2) * (b % 2)) + 2 * AndNat(a \div 2, b \div 2)

\* a & b
And64(a, b) ==
  <<AndNat(a[1], b[1]), AndNat(a[2], b[2]), AndNat(a[3], b[3]),
    AndNat(a[4], b[4])>>

\* a | b
Or64(a, b) == Not64(And64(Not64(a), Not64(b)))

\* a &^ b
AndNot64(a, b) == And64(a, Not64(b))

\* a * b modulo 2^64: schoolbook on the bytes of b
Mul64(a, b) ==
  LET part(j) == Add64(MulSmall64(a, b[j] % 256),
                       Shl64(MulSmall64(a, b[j] \div 256), 8))
  IN  Add64(Add64(part(1), ShlLimbs64(part(2), 1)),
            Add64(ShlLimbs64(part(3), 2), ShlLimbs64(part(4), 3)))

\* quotient and remainder of the uint64 a by k, 0 < k < 2^15
DivModSmallU(a, k) ==
  LET c4 == a[4]
      c3 == (c4 % k) * Base + a[3]
      c2 == (c3 % k) * Base + a[2]
      c1 == (c2 % k) * Base + a[1]
  IN  [q |-> <<c1 \div k, c2 \div k, c3 \div k, c4 \div k>>, r |-> c1 % k]

\* the magnitude of an int64 as a uint64 (Go's u = -u on uint64(d))
Abs64(a) == IF IsNeg64(a) THEN Neg64(a) ELSE a

\* the value of a word that fits an int32
ToInt(a) ==
  IF IsNeg64(a)
    THEN LET m == Neg64(a) IN -(m[1] + m[2] * Base)
    ELSE a[1] + a[2] * Base

\* the bit of a at position i, 0 <= i < 64
Bit64(a, i) == (a[(i \div 16) + 1] \div 2^(i % 16)) % 2

\* one step of the long division of the uint64 a by b: bit i of a is brought
\* down to the remainder st.r, and b is subtracted when it fits
DivStepU(a, b, i, st) ==
  LET r1 == Add64(Shl64(st.r, 1), <<Bit64(a, i), 0, 0, 0>>)
  IN  IF st.r[4] >= Half \/ ~LtU64(r1, b)
        THEN [q |-> Add64(Shl64(st.q, 1), One64), r |-> Sub64(r1, b)]
        ELSE [q |-> Shl64(st.q, 1), r |-> r1]

RECURSIVE DivBitsU(_, _, _, _, _)
\* the steps for the bits hi down to lo, the upper half of them first (a
\* remainder is always below b: the comparison only has the upper half's
\* result computed before the lower half starts)
DivBitsU(a, b, hi, lo, st) ==
  IF hi = lo THEN DivStepU(a, b, hi, st)
  ELSE LET mid == (hi + lo + 1) \div 2
           upper == DivBitsU(a, b, hi, mid, st)
       IN  IF upper.r = b THEN upper ELSE DivBitsU(a, b, mid - 1, lo, upper)

\* quotient and remainder of the uint64 a by the uint64 b # 0
DivModU64(a, b) == DivBitsU(a, b, 63, 0, [q |-> Zero64, r |-> Zero64])

\* a / b on int64 (Go truncates toward zero), b # 0
Quo64(a, b) ==
  LET q == DivModU64(Abs64(a), Abs64(b)).q
  IN  IF IsNeg64(a) # IsNeg64(b) THEN Neg64(q) ELSE q

\* a % b on int64 (the sign of the dividend), b # 0
Rem64(a, b) ==
  LET r == DivModU64(Abs64(a), Abs64(b)).r
  IN  IF IsNeg64(a) THEN Neg64(r) ELSE r


(***************************************************************************)
(* Constants of ticker.go.                                                 *)
(***************************************************************************)
secondsPerMinute == 60
secondsPerHour == 60 * secondsPerMinute
secondsPerDay == 24 * secondsPerHour

\* the literal 1e9 of Add, Unix and UnixNano: nanoseconds per second
NanosPerSec == 1000000000

\* (1969*365 + 1969/4 - 1969/100 + 1969/400) * secondsPerDay
unixToInternal ==
  Mul64(FromInt(1969 * 365 + (1969 \div 4) - (1969 \div 100) + (1969 \div 400)),
        FromInt(secondsPerDay))
internalToUnix == Neg64(unixToInternal)

\* (1884*365 + 1884/4 - 1884/100 + 1884/400) * secondsPerDay
wallToInternal ==
  Mul64(FromInt(1884 * 365 + (1884 \div 4) - (1884 \div 100) + (1884 \div 400)),
        FromInt(secondsPerDay))
internalToWall == Neg64(wallToInternal)

nsecShift == 30
hasMonotonic == Shl64(One64, 63)
\* 1<<33 - 1, the largest value of the packed seconds field
maxPacked == Sub64(Shl64(One64, 33), One64)
maxWall == Add64(wallToInternal, maxPacked)
minWall == wallToInternal
nsecMask == Sub64(Shl64(One64, nsecShift), One64)
unixToInternalminWall == Sub64(unixToInternal, minWall)

minDuration == Shl64(FromInt(-1), 63)
maxDuration == Sub64(Shl64(One64, 63), One64)

Nanosecond == One64
Microsecond == MulSmall64(Nanosecond, 1000)
Millisecond == MulSmall64(Microsecond, 1000)
Second == MulSmall64(Millisecond, 1000)
Minute == MulSmall64(Second, 60)
Hour == MulSmall64(Minute, 60)

(***************************************************************************)
(* Duration division by the constant 1e9, as Go computes d / 1e9 and       *)
(* d % 1e9 on an int64: the quotient truncates toward zero and the         *)
(* remainder takes the sign of d.  1e9 = 31250 * 32000.                    *)
(***************************************************************************)
DivMod1e9U(a) ==
  LET s1 == DivModSmallU(a, 31250)
      s2 == DivModSmallU(s1.q, 32000)
  IN  [q |-> s2.q, r |-> s2.r * 31250 + s1.r]

\* d / 1e9
Quo1e9(d) ==
  IF IsNeg64(d) THEN Neg64(DivMod1e9U(Neg64(d)).q) ELSE DivMod1e9U(d).q

\* d % 1e9, an integer in (-1e9, 1e9)
Rem1e9(d) ==
  IF IsNeg64(d) THEN -(DivMod1e9U(Neg64(d)).r) ELSE DivMod1e9U(d).r

(***************************************************************************)
(* type Time struct { wall uint64; ext int64 }                             *)
(***************************************************************************)
Time(wall, ext) == [wall |-> wall, ext |-> ext]

\* t.wall&hasMonotonic != 0
HasMono(t) == And64(t.wall, hasMonotonic) # Zero64

\* nsec returns the time's nanoseconds.
nsec(t) == ToInt(And64(t.wall, nsecMask))

\* sec returns the time's seconds since Jan 1 year 1.
sec(t) ==
  IF HasMono(t)
    THEN Add64(wallToInternal, Shr64(Shl64(t.wall, 1), nsecShift + 1))
    ELSE t.ext

\* unixSec returns the time's seconds since Jan 1 1970 (Unix time).
unixSec(t) == Add64(sec(t), internalToUnix)

\* stripMono strips the monotonic clock reading in t.
stripMono(t) ==
  IF HasMono(t)
    THEN Time(And64(t.wall, nsecMask), sec(t))
    ELSE t

\* addSec adds d seconds to the time.
addSec(t, d) ==
  IF HasMono(t)
    THEN LET s == Shr64(Shl64(t.wall, 1), nsecShift + 1)
             dsec == Add64(s, d)
         IN  IF LeS64(Zero64, dsec) /\ LeS64(dsec, maxPacked)
               THEN Time(Or64(Or64(And64(t.wall, nsecMask), Shl64(dsec, nsecShift)),
                              hasMonotonic),
                         t.ext)
               ELSE \* Wall second now out of range for packed field: move to ext.
                    LET w == stripMono(t) IN Time(w.wall, Add64(w.ext, d))
    ELSE Time(t.wall, Add64(t.ext, d))

\* setMono sets the monotonic clock reading in t.
setMono(t, m) ==
  IF ~HasMono(t)
    THEN IF LtS64(t.ext, minWall) \/ LtS64(maxWall, t.ext)
           THEN t
           ELSE Time(Or64(t.wall, Or64(hasMonotonic,
                                       Shl64(Sub64(t.ext, minWall), nsecShift))),
                     m)
    ELSE Time(t.wall, m)

\* mono returns t's monotonic clock reading, 0 for a missing reading.
mono(t) == IF ~HasMono(t) THEN Zero64 ELSE t.ext

\* After reports whether the time instant t is after u.
After(t, u) ==
  IF HasMono(t) /\ HasMono(u)
    THEN LtS64(u.ext, t.ext)
    ELSE LET ts == sec(t)
             us == sec(u)
         IN  LtS64(us, ts) \/ (ts = us /\ nsec(t) > nsec(u))

\* Before, had it compared the wall fields whatever the operands carry.
BeforeWallOnly(t, u) ==
  LtS64(sec(t), sec(u)) \/ (sec(t) = sec(u) /\ nsec(t) < nsec(u))

\* Before reports whether the time instant t is before u.
Before(t, u) ==
  IF HasMono(t) /\ HasMono(u)
    THEN LtS64(t.ext, u.ext)
    ELSE LtS64(sec(t), sec(u)) \/ (sec(t) = sec(u) /\ nsec(t) < nsec(u))

\* Equal reports whether t and u represent the same time instant.
Equal(t, u) ==
  IF HasMono(t) /\ HasMono(u)
    THEN t.ext = u.ext
    ELSE sec(t) = sec(u) /\ nsec(t) = nsec(u)

\* Add, had it stored the new monotonic reading without the range check.
AddKeepsMono(t, d) ==
  LET dsec0 == Quo1e9(d)
      nsec0 == nsec(t) + Rem1e9(d)
      dsec == IF nsec0 >= NanosPerSec THEN Add64(dsec0, One64)
              ELSE IF nsec0 < 0 THEN Sub64(dsec0, One64)
              ELSE dsec0
      nsec1 == IF nsec0 >= NanosPerSec THEN nsec0 - NanosPerSec
               ELSE IF nsec0 < 0 THEN nsec0 + NanosPerSec
               ELSE nsec0
      t1 == Time(Or64(AndNot64(t.wall, nsecMask), FromInt(nsec1)), t.ext)
      t2 == addSec(t1, dsec)
  IN  IF HasMono(t2) THEN Time(t2.wall, Add64(t2.ext, d)) ELSE t2

\* Add, had it not carried a full second of nanoseconds into the seconds.
AddNoCarry(t, d) ==
  LET dsec0 == Quo1e9(d)
      nsec0 == nsec(t) + Rem1e9(d)
      dsec == IF nsec0 < 0 THEN Sub64(dsec0, One64) ELSE dsec0
      nsec1 == IF nsec0 < 0 THEN nsec0 + NanosPerSec ELSE nsec0
      t1 == Time(Or64(AndNot64(t.wall, nsecMask), FromInt(nsec1)), t.ext)
      t2 == addSec(t1, dsec)
  IN  IF HasMono(t2)
        THEN LET te == Add64(t2.ext, d)
             IN  IF (IsNeg64(d) /\ LtS64(t2.ext, te))
                    \/ (LtS64(Zero64, d) /\ LtS64(te, t2.ext))
                   THEN stripMono(t2)
                   ELSE Time(t2.wall, te)
        ELSE t2

\* Add returns the time t+d.
Add(t, d) ==
  LET dsec0 == Quo1e9(d)
      nsec0 == nsec(t) + Rem1e9(d)
      dsec == IF nsec0 >= NanosPerSec THEN Add64(dsec0, One64)
              ELSE IF nsec0 < 0 THEN Sub64(dsec0, One64)
              ELSE dsec0
      nsec1 == IF nsec0 >= NanosPerSec THEN nsec0 - NanosPerSec
               ELSE IF nsec0 < 0 THEN nsec0 + NanosPerSec
               ELSE nsec0
      t1 == Time(Or64(AndNot64(t.wall, nsecMask), FromInt(nsec1)), t.ext)
      t2 == addSec(t1, dsec)
  IN  IF HasMono(t2)
        THEN LET te == Add64(t2.ext, d)
             IN  IF (IsNeg64(d) /\ LtS64(t2.ext, te))
                    \/ (LtS64(Zero64, d) /\ LtS64(te, t2.ext))
                   THEN \* Monotonic clock reading now out of range.
                        stripMono(t2)
                   ELSE Time(t2.wall, te)
        ELSE t2

\* Sub, had it taken its operands the other way round.
SubReversed(t, u) ==
  IF HasMono(t) /\ HasMono(u)
    THEN LET te == t.ext
             ue == u.ext
             d == Sub64(ue, te)
         IN  IF IsNeg64(d) /\ LtS64(te, ue) THEN maxDuration
             ELSE IF LtS64(Zero64, d) /\ LtS64(ue, te) THEN minDuration
             ELSE d
    ELSE LET d == Add64(Mul64(Sub64(sec(u), sec(t)), Second),
                        FromInt(nsec(u) - nsec(t)))
         IN  IF Equal(Add(t, d), u) THEN d
             ELSE IF Before(u, t) THEN minDuration
             ELSE maxDuration

\* Sub returns the duration t-u, saturated at minDuration / maxDuration.
Sub(t, u) ==
  IF HasMono(t) /\ HasMono(u)
    THEN LET te == t.ext
             ue == u.ext
             d == Sub64(te, ue)
         IN  IF IsNeg64(d) /\ LtS64(ue, te) THEN maxDuration
             ELSE IF LtS64(Zero64, d) /\ LtS64(te, ue) THEN minDuration
             ELSE d
    ELSE LET d == Add64(Mul64(Sub64(sec(t), sec(u)), Second),
                        FromInt(nsec(t) - nsec(u)))
         IN  IF Equal(Add(u, d), t) THEN d
             ELSE IF Before(t, u) THEN minDuration
             ELSE maxDuration

(***************************************************************************)
(* Duration.String.  The text is the sequence of the bytes written to the  *)
(* tail of buf, buf[w:]; a byte is written as its one-character string,    *)
(* and the two bytes of the micro sign as "0xC2" and "0xB5".               *)
(***************************************************************************)
\* byte(digit) + '0'
DigitByte(digit) == <<"0", "1", "2", "3", "4", "5", "6", "7", "8", "9">>[digit + 1]

\* copy(buf[w:], "µ"): U+00B5 is 0xC2 0xB5
MicroSign == <<"0xC2", "0xB5">>

RECURSIVE fmtFracLoop(_, _, _, _)
\* the loop of fmtFrac with left iterations to go
fmtFracLoop(buf, v, left, print) ==
  IF left = 0 THEN [buf |-> buf, v |-> v, print |-> print]
  ELSE LET dm == DivModSmallU(v, 10)
           p == print \/ dm.r # 0
       IN  fmtFracLoop(IF p THEN <<DigitByte(dm.r)>> \o buf ELSE buf,
                       dm.q, left - 1, p)

\* fmtFrac, had it kept the trailing zeros.
fmtFracAllDigits(buf, v, prec) ==
  LET l == fmtFracLoop(buf, v, prec, TRUE)
  IN  [buf |-> IF prec > 0 THEN <<".">> \o l.buf ELSE l.buf, v |-> l.v]

\* fmtFrac formats the fraction of v/10**prec (e.g., ".12345") into the
\* tail of buf, omitting trailing zeros.  It returns the text and v/10**prec.
fmtFrac(buf, v, prec) ==
  LET l == fmtFracLoop(buf, v, prec, FALSE)
  IN  [buf |-> IF l.print THEN <<".">> \o l.buf ELSE l.buf, v |-> l.v]

RECURSIVE fmtIntLoop(_, _)
\* for v > 0 { w--; buf[w] = byte(v%10) + '0'; v /= 10 }
fmtIntLoop(buf, v) ==
  IF v = Zero64 THEN buf
  ELSE LET dm == DivModSmallU(v, 10)
       IN  fmtIntLoop(<<DigitByte(dm.r)>> \o buf, dm.q)

\* fmtInt formats v into the tail of buf.
fmtInt(buf, v) == IF v = Zero64 THEN <<"0">> \o buf ELSE fmtIntLoop(buf, v)

\* String returns a string representing the duration in the form "72h3m0.5s".
String(d) ==
  LET neg == IsNeg64(d)
      u == Abs64(d)
      sign(buf) == IF neg THEN <<"-">> \o buf ELSE buf
  IN  IF LtU64(u, Second)
        THEN IF u = Zero64 THEN <<"0", "s">>
             ELSE LET prec == IF LtU64(u, Microsecond) THEN 0
                              ELSE IF LtU64(u, Millisecond) THEN 3 ELSE 6
                      unit == IF LtU64(u, Microsecond) THEN <<"n", "s">>
                              ELSE IF LtU64(u, Millisecond) THEN MicroSign \o <<"s">>
                              ELSE <<"m", "s">>
                      f == fmtFrac(unit, u, prec)
                  IN  sign(fmtInt(f.buf, f.v))
        ELSE LET f == fmtFrac(<<"s">>, u, 9)
                 secs == DivModSmallU(f.v, 60)
                 b1 == fmtInt(f.buf, FromInt(secs.r))
                 mins == DivModSmallU(secs.q, 60)
                 b2 == fmtInt(<<"m">> \o b1, FromInt(mins.r))
             IN  IF secs.q = Zero64 THEN sign(b1)
                 ELSE IF mins.q = Zero64 THEN sign(b2)
                 ELSE sign(fmtInt(<<"h">> \o b2, mins.q))

(***************************************************************************)
(* Rounding of Durations.                                                  *)
(***************************************************************************)
\* Truncate, had it rounded toward minus infinity.
DurationTruncateDown(d, m) ==
  IF ~LtS64(Zero64, m) THEN d
  ELSE LET r == Rem64(d, m)
       IN  IF IsNeg64(r) THEN Sub64(d, Add64(r, m)) ELSE Sub64(d, r)

\* Truncate returns the result of rounding d toward zero to a multiple of m.
\* If m <= 0, Truncate returns d unchanged.
DurationTruncate(d, m) ==
  IF ~LtS64(Zero64, m) THEN d ELSE Sub64(d, Rem64(d, m))

\* lessThanHalf, had it compared with <=.
atMostHalf(x, y) == ~LtU64(y, Add64(x, x))

\* lessThanHalf reports whether x+x < y but avoids overflow,
\* assuming x and y are both positive (Duration is signed).
lessThanHalf(x, y) == LtU64(Add64(x, x), y)

\* Round returns the result of rounding d to the nearest multiple of m.
DurationRound(d, m) ==
  IF ~LtS64(Zero64, m) THEN d
  ELSE LET r0 == Rem64(d, m)
       IN  IF IsNeg64(d)
             THEN LET r == Neg64(r0)
                      d1 == Add64(Sub64(d, m), r)
                  IN  IF lessThanHalf(r, m) THEN Add64(d, r)
                      ELSE IF LtS64(d1, d) THEN d1
                      ELSE minDuration
             ELSE LET d1 == Sub64(Add64(d, m), r0)
                  IN  IF lessThanHalf(r0, m) THEN Sub64(d, r0)
                      ELSE IF LtS64(d, d1) THEN d1
                      ELSE maxDuration

\* A reading of the platform clock, runtime's (sec, nsec, mono): wall seconds
\* and nanoseconds since 1970 and the monotonic nanosecond counter.
Reading(s, n, m) == [sec |-> s, nsec |-> n, mono |-> m]

\* Now returns the current time, from the reading r of the clock; start is
\* the package variable startNano.
Now(r, start) ==
  LET m == Sub64(r.mono, start)
      s == Add64(r.sec, unixToInternalminWall)
  IN  IF Shr64(s, 33) # Zero64
        THEN Time(FromInt(r.nsec), Add64(s, minWall))
        ELSE Time(Or64(Or64(hasMonotonic, Shl64(s, nsecShift)), FromInt(r.nsec)), m)

\* uint32(v): the low 32 bits
Low32(v) == <<v[1], v[2], 0, 0>>

EpochInternal(r, start) == Low32(sec(Now(r, start)))

\* Epoch returns the clock's Unix seconds as a Time32 (a uint32).
Epoch(r, start) ==
  LET m == Sub64(r.mono, start)
      unsec == FromInt(r.nsec)
      s == Add64(r.sec, unixToInternalminWall)
      big == Shr64(s, 33) # Zero64
      wall == IF big THEN unsec
              ELSE Or64(Or64(hasMonotonic, Shl64(s, nsecShift)), unsec)
      ext == IF big THEN Add64(s, minWall) ELSE m
      tsec == IF And64(wall, hasMonotonic) # Zero64
                THEN Add64(wallToInternal, Shr64(Shl64(wall, 1), nsecShift + 1))
                ELSE ext
  IN  Low32(Add64(tsec, internalToUnix))

\* Unix returns t as a Unix time, seconds since January 1, 1970 UTC.
UnixOf(t) == unixSec(t)

\* AddDate, had a day been 8640 seconds.
AddDateShortDay(t, days) == Low32(Add64(t, Mul64(days, FromInt(8640))))

\* func (t Time32) AddDate(days int) Time32: t is a uint32, days an int
AddDate(t, days) == Low32(Add64(t, Mul64(days, FromInt(86400))))

\* func unixTime(sec int64, nsec int32) Time
unixTime(s, n) == Time(FromInt(n), Add64(s, unixToInternal))

\* Unix, had it left a negative remainder as it is.
UnixNoBorrow(s, n) ==
  IF IsNeg64(n) \/ ~LtS64(n, FromInt(NanosPerSec))
    THEN LET q == Quo1e9(n)
         IN  unixTime(Add64(s, q),
                      ToInt(Sub64(n, Mul64(q, FromInt(NanosPerSec)))))
    ELSE unixTime(s, ToInt(n))

\* Unix returns the Time corresponding to the given Unix time, s seconds and
\* n nanoseconds (an int64) since January 1, 1970 UTC.
Unix(s, n) ==
  IF IsNeg64(n) \/ ~LtS64(n, FromInt(NanosPerSec))
    THEN LET q == Quo1e9(n)
             s1 == Add64(s, q)
             n1 == ToInt(Sub64(n, Mul64(q, FromInt(NanosPerSec))))
         IN  IF n1 < 0
               THEN unixTime(Sub64(s1, One64), n1 + NanosPerSec)
               ELSE unixTime(s1, n1)
    ELSE unixTime(s, ToInt(n))

(***************************************************************************)
(* Rounding of Times.                                                      *)
(***************************************************************************)
RECURSIVE divNormalize(_)
\* for d1>>63 != 1 { d1 <<= 1 }
divNormalize(d1) == IF d1[4] >= Half THEN d1 ELSE divNormalize(Shl64(d1, 1))

\* one round of the loop of div's general case: the 128-bit (d1, d0) is
\* subtracted from (u1, u0) when it fits, then the loop ends when (d1, d0) is
\* back at d and otherwise (d1, d0) moves one bit to the right.  A state
\* with done set is left as it is.
divRound(st, d) ==
  IF st.done THEN st
  ELSE LET fits == \/ LtU64(st.d1, st.u1)
                   \/ st.u1 = st.d1 /\ ~LtU64(st.u0, st.d0)
           u0 == IF fits THEN Sub64(st.u0, st.d0) ELSE st.u0
           borrow == fits /\ LtU64(st.u0, u0)
           u1 == IF fits
                   THEN Sub64(IF borrow THEN Sub64(st.u1, One64) ELSE st.u1, st.d1)
                   ELSE st.u1
           last == st.d1 = Zero64 /\ st.d0 = d
       IN  [u1 |-> u1, u0 |-> u0, qmod2 |-> IF fits THEN 1 ELSE 0,
            d1 |-> IF last THEN st.d1 ELSE Shr64(st.d1, 1),
            d0 |-> IF last THEN st.d0
                   ELSE \* d0 >>= 1; d0 |= (d1 & 1) << 63
                        LET low == Shr64(st.d0, 1)
                        IN  <<low[1], low[2], low[3],
                              low[4] + (st.d1[1] % 2) * Half>>,
            done |-> last]

RECURSIVE divRounds(_, _, _)
\* n rounds of the loop from the state st, the first half of them first
divRounds(st, d, n) ==
  IF n = 1 THEN divRound(st, d)
  ELSE LET first == divRounds(st, d, n \div 2)
       IN  IF first.done THEN first ELSE divRounds(first, d, n - (n \div 2))

\* u0x, u0 = u0, u0+x; if u0 < u0x { u1++ }
divAdd128(u, x) ==
  [u1 |-> IF LtU64(Add64(u.u0, x), u.u0) THEN Add64(u.u1, One64) ELSE u.u1,
   u0 |-> Add64(u.u0, x)]

\* the nanoseconds as a 128-bit number (u1, u0), from tmp = (sec>>32) * 1e9,
\* low = (sec&0xFFFFFFFF) * 1e9 and nsec
divNanos(tmp, low, ns) ==
  divAdd128(divAdd128([u1 |-> Shr64(tmp, 32), u0 |-> Shl64(tmp, 32)], low),
            FromInt(ns))

\* the loop of the general case from its first round to its break: it makes
\* at most 128 rounds
divLoop(u, d) ==
  divRounds([u1 |-> u.u1, u0 |-> u.u0, qmod2 |-> 0,
             d1 |-> divNormalize(d), d0 |-> Zero64, done |-> FALSE], d, 128)

\* r = Duration(u0)
divRemainder(end) == [qmod2 |-> end.qmod2, r |-> end.u0]

\* the general case of div: the remainder by subtracting d<<k for
\* decreasing k
divGeneral(s, ns, d) ==
  divRemainder(
    divLoop(divNanos(Mul64(Shr64(s, 32), FromInt(NanosPerSec)),
                     Mul64(And64(s, Sub64(Shl64(One64, 32), One64)),
                           FromInt(NanosPerSec)),
                     ns),
            d))

\* the case of a d that is a multiple of 1 second, d1 := int64(d / Second)
divSeconds(s, ns, d1) ==
  [qmod2 |-> Quo64(s, d1)[1] % 2,
   r |-> Add64(Mul64(Rem64(s, d1), Second), FromInt(ns))]

\* the switch of div, on the absolute value s seconds and ns nanoseconds
divSwitch(s, ns, d) ==
  IF LtS64(d, Second) /\ Rem64(Second, Add64(d, d)) = Zero64
    THEN [qmod2 |-> (ns \div ToInt(d)) % 2, r |-> FromInt(ns % ToInt(d))]
  ELSE IF Rem64(d, Second) = Zero64
    THEN divSeconds(s, ns, Quo64(d, Second))
  ELSE divGeneral(s, ns, d)

\* if neg && r != 0 { qmod2 ^= 1; r = d - r }
divSigned(neg, d, res) ==
  IF neg /\ res.r # Zero64
    THEN [qmod2 |-> 1 - res.qmod2, r |-> Sub64(d, res.r)]
    ELSE res

\* div on the seconds s and the nanoseconds ns of t: a negative s is
\* negated (it wraps for MinInt64), and a second is borrowed for ns > 0
divParts(s, ns, d) ==
  divSigned(IsNeg64(s), d,
            divSwitch(IF IsNeg64(s) /\ ns > 0 THEN Sub64(Neg64(s), One64)
                      ELSE IF IsNeg64(s) THEN Neg64(s) ELSE s,
                      IF IsNeg64(s) /\ ns > 0 THEN NanosPerSec - ns
                      ELSE IF IsNeg64(s) THEN -ns ELSE ns,
                      d))

\* div divides t by d and returns the quotient parity and remainder.
div(t, d) == divParts(sec(t), nsec(t), d)

\* Truncate, had it kept the monotonic clock reading.
TruncateKeepsMono(t, d) ==
  IF ~LtS64(Zero64, d) THEN t ELSE Add(t, Neg64(div(t, d).r))

\* Truncate returns the result of rounding t down to a multiple of d (since
\* the zero time).
Truncate(t, d) ==
  IF ~LtS64(Zero64, d) THEN stripMono(t)
  ELSE Add(stripMono(t), Neg64(div(stripMono(t), d).r))

\* if lessThanHalf(r, d) { return t.Add(-r) }; return t.Add(d - r)
roundBy(t, d, r) == Add(t, IF lessThanHalf(r, d) THEN Neg64(r) ELSE Sub64(d, r))

\* Round returns the result of rounding t to the nearest multiple of d (since
\* the zero time).
Round(t, d) ==
  IF ~LtS64(Zero64, d) THEN stripMono(t)
  ELSE roundBy(stripMono(t), d, div(stripMono(t), d).r)

(***************************************************************************)
(* Bounds of the model.                                                    *)
(***************************************************************************)
\* the readers of the cache (goroutines calling ReuseEpoch)
NumReaders == 2
\* the clock quanta the platform clock advances before the horizon
MaxSteps == 4
\* the clock quanta in one refresh interval
StepsPerInterval == 2

Readers == 1..NumReaders

\* time.NewTicker(100 * time.Millisecond): the refresh interval in nanoseconds
TickInterval == 100 * ToInt(Millisecond)
\* the platform clock advances one quantum at a time
Quantum == TickInterval \div StepsPerInterval

\* Unix seconds of the last second of 1969, of a day in 2020, of the last
\* second a uint32 holds, and of the last second of the packed wall field
StartSecs ==
  { FromInt(-1),
    FromInt(1600000000),
    Sub64(Shl64(One64, 32), One64),
    Add64(maxWall, internalToUnix) }
\* the clock starts one quantum before the next second
StartNsecs == {NanosPerSec - Quantum}
\* runtime.nanotime() when the package is loaded
BootNano == FromInt(1000000 + 1)

VARIABLES
  clock,      \* the platform clock: the reading now() returns
  elapsed,    \* quanta the clock has advanced (bounded by MaxSteps)
  startNano,  \* var startNano = runtimeNano() - 1
  lastEpoch,  \* var lastEpoch atomic.Value: [kind, val]
  ipc,        \* where package init is: "store", "ticker", "go", "done"
  untilFire,  \* quanta until the ticker fires next; 0: no ticker yet
  tickerC,    \* ticker.C, a channel of capacity 1: <<>> or <<tick>>
  bpc,        \* the refresh goroutine: "off", "recv", "store", "exit", "panic"
  bgT,        \* the tick the refresh goroutine received
  rd,         \* the readers: [pc, fresh, got, prev, hasGot, hasPrev, at, idx, paired]
  pubs,       \* history: the samples published, oldest first
  sinceM,     \* history: quanta since the marked moment M; -1: no mark
  pubAfterM,  \* history: the published sample was taken after M
  tT, tU,     \* Time operands
  tD,         \* Duration operand
  tPrev,      \* the receiver of the last Add
  tRes,       \* the result of the last Sub
  tCmp,       \* the results of the last Before, After and Equal
  tOp,        \* the last operation applied: "none", "Add", "Sub", "Cmp", ...
  tN,         \* operations that moved tT
  fn,         \* the function called last; "none": none yet
  arg,        \* its arguments, [x, y]: 64-bit words
  ret         \* what it returned

cacheVars == <<clock, elapsed, startNano, lastEpoch, ipc, untilFire, tickerC, bpc,
               bgT, rd, pubs, sinceM, pubAfterM>>
operandVars == <<tT, tU, tD, tPrev, tRes, tCmp, tOp, tN>>
funcVars == <<fn, arg, ret>>
timeVars == <<tT, tU, tD, tPrev, tRes, tCmp, tOp, tN, fn, arg, ret>>
vars == <<clock, elapsed, startNano, lastEpoch, ipc, untilFire, tickerC, bpc,
          bgT, rd, pubs, sinceM, pubAfterM, tT, tU, tD, tPrev, tRes, tCmp, tOp, tN,
          fn, arg, ret>>

(***************************************************************************)
(* The refresh cache: package init, the ticker, the refresh goroutine and  *)
(* ReuseEpoch.                                                             *)
(***************************************************************************)
NilValue == [kind |-> "nil", val |-> Zero64]

\* the interface value int64(v)
Int64Value(v) == [kind |-> "int64", val |-> v]

\* time.Time.Unix() of the tick the ticker sent: its wall clock reading's
\* Unix seconds
TickUnix(tick) == tick.sec

InitSampleTime32(r, start) == [kind |-> "Time32", val |-> Epoch(r, start)]

\* lastEpoch.Store(int64(Epoch())): the value package init publishes
InitSample(r, start) == Int64Value(Epoch(r, start))

\* lastEpoch.Store(t.Unix()): the value a tick publishes
TickSample(tick) == Int64Value(TickUnix(tick))

StoreTorn(old, new) ==
  [kind |-> new.kind, val |-> <<new.val[1], old.val[2], old.val[3], old.val[4]>>]

\* atomic.Value.Store: the whole value is replaced in one step
Store(old, new) == new

\* atomic.Value.Store panics on a value whose type differs from the first
\* one stored
StorePanics(old, new) == old.kind # "nil" /\ old.kind # new.kind

AfterStoreExit == "exit"

\* for { select { case t := <-ticker.C: ... } }: after a publish the
\* goroutine waits for the next tick
AfterStore == "recv"

IdleReader ==
  [pc |-> "idle", fresh |-> Zero64, got |-> Zero64, prev |-> Zero64,
   hasGot |-> FALSE, hasPrev |-> FALSE, at |-> 0, idx |-> 0, paired |-> FALSE]

\* a history entry: the value published, the Unix second of the clock
\* reading it was computed from, and who published it
Pub(v, src, by) == [val |-> v, src |-> src, by |-> by]

Record(h, e) == IF h # <<>> /\ h[Len(h)] = e THEN h ELSE Append(h, e)

CacheInit ==
  /\ clock \in {Reading(s, n, BootNano) : s \in StartSecs, n \in StartNsecs}
  /\ elapsed = 0
  /\ startNano = Sub64(BootNano, One64)
  /\ lastEpoch = NilValue
  /\ ipc = "store"
  /\ untilFire = 0
  /\ tickerC = <<>>
  /\ bpc = "off"
  /\ bgT = Reading(Zero64, 0, Zero64)
  /\ rd = [r \in Readers |-> IdleReader]
  /\ pubs = <<>>
  /\ sinceM = -1
  /\ pubAfterM = FALSE

TimeIdle ==
  /\ tT = Time(Zero64, Zero64)
  /\ tU = Time(Zero64, Zero64)
  /\ tD = Zero64
  /\ tPrev = Time(Zero64, Zero64)
  /\ tRes = Zero64
  /\ tCmp = [before |-> FALSE, after |-> FALSE, equal |-> FALSE]
  /\ tOp = "none"
  /\ tN = 0

FuncIdle ==
  /\ fn = "none"
  /\ arg = [x |-> Zero64, y |-> Zero64]
  /\ ret = Zero64

Init == CacheInit /\ TimeIdle /\ FuncIdle

\* init: lastEpoch.Store(int64(Epoch()))
InitStore ==
  /\ ipc = "store"
  /\ lastEpoch' = Store(lastEpoch, InitSample(clock, startNano))
  /\ pubs' = Record(pubs, Pub(InitSample(clock, startNano).val, clock.sec, "init"))
  /\ pubAfterM' = FALSE
  /\ ipc' = "ticker"
  /\ UNCHANGED <<clock, elapsed, startNano, untilFire, tickerC, bpc, bgT, rd, sinceM>>
  /\ UNCHANGED timeVars

\* init: ticker := time.NewTicker(100 * time.Millisecond)
InitTicker ==
  /\ ipc = "ticker"
  /\ untilFire' = StepsPerInterval
  /\ ipc' = "go"
  /\ UNCHANGED <<clock, elapsed, startNano, lastEpoch, tickerC, bpc, bgT, rd, pubs,
                 sinceM, pubAfterM>>
  /\ UNCHANGED timeVars

\* init: go func() { ... }(), after which init returns
InitGo ==
  /\ ipc = "go"
  /\ bpc' = "recv"
  /\ ipc' = "done"
  /\ UNCHANGED <<clock, elapsed, startNano, lastEpoch, untilFire, tickerC, bgT, rd,
                 pubs, sinceM, pubAfterM>>
  /\ UNCHANGED timeVars

\* the clock reading one quantum after r
Later(r) ==
  Reading(IF r.nsec + Quantum >= NanosPerSec THEN Add64(r.sec, One64) ELSE r.sec,
          (r.nsec + Quantum) % NanosPerSec,
          Add64(r.mono, FromInt(Quantum)))

\* One quantum of time passes.  A ticker that comes due sends the current
\* time on its channel, and drops the tick when the channel is full.
Pass(c) ==
  /\ clock' = c
  /\ sinceM' = IF sinceM < 0 THEN sinceM
               ELSE IF sinceM > StepsPerInterval THEN sinceM
               ELSE sinceM + 1
  /\ IF untilFire = 0
       THEN UNCHANGED <<untilFire, tickerC>>
       ELSE IF untilFire > 1
         THEN untilFire' = untilFire - 1 /\ UNCHANGED tickerC
         ELSE /\ untilFire' = StepsPerInterval
              /\ tickerC' = IF tickerC = <<>>
                              THEN <<[sec |-> c.sec, afterM |-> sinceM >= 0]>>
                              ELSE tickerC
  /\ UNCHANGED <<startNano, lastEpoch, ipc, bpc, bgT, rd, pubs, pubAfterM>>
  /\ UNCHANGED timeVars

Advance ==
  /\ elapsed < MaxSteps
  /\ elapsed' = elapsed + 1
  /\ Pass(Later(clock))

\* Past the horizon of the model time still passes and the ticker still
\* fires; the readings of the clock are no longer told apart.
HorizonTick ==
  /\ elapsed = MaxSteps
  /\ elapsed' = elapsed
  /\ Pass(clock)

\* case t := <-ticker.C
BgRecv ==
  /\ bpc = "recv"
  /\ tickerC # <<>>
  /\ bgT' = tickerC[1]
  /\ tickerC' = <<>>
  /\ bpc' = "store"
  /\ UNCHANGED <<clock, elapsed, startNano, lastEpoch, ipc, untilFire, rd, pubs,
                 sinceM, pubAfterM>>
  /\ UNCHANGED timeVars

\* lastEpoch.Store(t.Unix())
BgStore ==
  /\ bpc = "store"
  /\ IF StorePanics(lastEpoch, TickSample(bgT))
       THEN bpc' = "panic" /\ UNCHANGED <<lastEpoch, pubs, pubAfterM>>
       ELSE /\ lastEpoch' = Store(lastEpoch, TickSample(bgT))
            /\ pubs' = Record(pubs, Pub(TickSample(bgT).val, bgT.sec, "tick"))
            /\ pubAfterM' = bgT.afterM
            /\ bpc' = AfterStore
  /\ UNCHANGED <<clock, elapsed, startNano, ipc, untilFire, tickerC, bgT, rd, sinceM>>
  /\ UNCHANGED timeVars

\* a caller takes tt := Now() and keeps tt.Unix()
ReadNow(r) ==
  /\ ipc = "done"
  /\ rd[r].pc = "idle"
  /\ rd' = [rd EXCEPT ![r].pc = "now",
                      ![r].fresh = UnixOf(Now(clock, startNano))]
  /\ UNCHANGED <<clock, elapsed, startNano, lastEpoch, ipc, untilFire, tickerC, bpc,
                 bgT, pubs, sinceM, pubAfterM>>
  /\ UNCHANGED timeVars

\* a caller enters ReuseEpoch(), straight after its Now() or on its own.
\* History: at is the number of the publication in lastEpoch at that moment.
ReuseCall(r) ==
  /\ ipc = "done"
  /\ rd[r].pc \in {"idle", "now"}
  /\ rd' = [rd EXCEPT ![r].pc = "call",
                      ![r].at = Len(pubs),
                      ![r].paired = (rd[r].pc = "now")]
  /\ UNCHANGED <<clock, elapsed, startNano, lastEpoch, ipc, untilFire, tickerC, bpc,
                 bgT, pubs, sinceM, pubAfterM>>
  /\ UNCHANGED timeVars

\* func ReuseEpoch() int64 { return lastEpoch.Load().(int64) }
\* History: idx is the number of the publication in lastEpoch at the Load.
ReuseEpoch(r) ==
  /\ ipc = "done"
  /\ rd[r].pc = "call"
  /\ rd' = IF lastEpoch.kind = "int64"
             THEN [rd EXCEPT ![r] =
                    [pc |-> "idle", fresh |-> @.fresh, got |-> lastEpoch.val,
                     prev |-> @.got, hasGot |-> TRUE, hasPrev |-> @.hasGot,
                     at |-> @.at, idx |-> Len(pubs), paired |-> @.paired]]
             ELSE [rd EXCEPT ![r].pc = "panic"]
  /\ UNCHANGED <<clock, elapsed, startNano, lastEpoch, ipc, untilFire, tickerC, bpc,
                 bgT, pubs, sinceM, pubAfterM>>
  /\ UNCHANGED timeVars

\* history only: a caller marks the present moment as M (LiveSpec: the
\* samples published after M are what C5 follows)
MarkM ==
  /\ ipc = "done"
  /\ sinceM = -1
  /\ sinceM' = 0
  /\ pubAfterM' = FALSE
  /\ tickerC' = [i \in DOMAIN tickerC |-> [tickerC[i] EXCEPT !.afterM = FALSE]]
  /\ bgT' = bgT
  /\ UNCHANGED <<clock, elapsed, startNano, lastEpoch, ipc, untilFire, bpc, rd, pubs>>
  /\ UNCHANGED timeVars

Next ==
  \/ InitStore
  \/ InitTicker
  \/ InitGo
  \/ Advance
  \/ BgRecv
  \/ BgStore
  \/ \E r \in Readers : ReadNow(r)
  \/ \E r \in Readers : ReuseCall(r)
  \/ \E r \in Readers : ReuseEpoch(r)

Spec == Init /\ [][Next]_vars

LiveNext ==
  \/ InitStore
  \/ InitTicker
  \/ InitGo
  \/ Advance
  \/ HorizonTick
  \/ BgRecv
  \/ BgStore
  \/ \E r \in Readers : ReuseCall(r)
  \/ \E r \in Readers : ReuseEpoch(r)
  \/ MarkM

\* Time passes, init runs on once it has published its sample, and the
\* runtime runs the refresh goroutine whenever it can run.
LiveSpec ==
  /\ Init
  /\ [][LiveNext]_vars
  /\ WF_vars(InitTicker) /\ WF_vars(InitGo)
  /\ WF_vars(Advance) /\ WF_vars(HorizonTick)
  /\ WF_vars(BgRecv) /\ WF_vars(BgStore)

(***************************************************************************)
(* Time arithmetic: the operands are Times a program can hold, made by     *)
(* Now() from readings of the clock and by Unix(), and moved by Add.       *)
(***************************************************************************)
\* Adds applied to an operand
MaxOps == 1

MaxInt64 == maxDuration
MinInt64 == minDuration

\* Unix seconds of the last and of the first second of the packed wall field
maxWallUnix == Add64(maxWall, internalToUnix)
minWallUnix == Add64(minWall, internalToUnix)

\* monotonic readings: a second and two seconds after the package was
\* loaded, one nanosecond more, and an uptime near the end of the int64 range
MonoA == Add64(BootNano, Second)
MonoB == Add64(MonoA, Second)
MonoC == Add64(MonoA, One64)
MonoFar == Add64(BootNano, Sub64(MaxInt64, Second))

SeedReadings ==
  { Reading(FromInt(1600000000), 500000000, MonoA),
    \* the same wall reading a second later: the wall clock was set back
    Reading(FromInt(1600000000), 500000000, MonoB),
    Reading(FromInt(1600000002), 250000000, MonoC),
    \* the last nanosecond the packed field holds, read twice
    Reading(maxWallUnix, NanosPerSec - 1, MonoA),
    Reading(maxWallUnix, NanosPerSec - 1, MonoC),
    \* outside the packed field on either side: Now() returns wall-only Times
    Reading(Add64(maxWallUnix, One64), 0, MonoB),
    Reading(Sub64(minWallUnix, One64), NanosPerSec - 1, MonoA),
    Reading(minWallUnix, 0, MonoB),
    \* a process that has been up for most of the int64 range
    Reading(FromInt(1600000000), 500000000, MonoFar) }

SeedTimes ==
  {Now(r, Sub64(BootNano, One64)) : r \in SeedReadings}
  \cup
  { Unix(Zero64, Zero64),
    Unix(FromInt(10), FromInt(-1)),
    Unix(internalToUnix, Zero64),
    \* the largest and the smallest seconds since year 1 a Time holds
    Unix(Sub64(MaxInt64, unixToInternal), FromInt(NanosPerSec - 1)),
    Unix(Sub64(MinInt64, unixToInternal), Zero64) }

SeedDurations ==
  { Nanosecond, Neg64(Nanosecond), Add64(Second, Millisecond), Neg64(Hour),
    maxDuration, minDuration }

CacheIdle ==
  /\ clock = Reading(Zero64, 0, BootNano)
  /\ elapsed = 0
  /\ startNano = Sub64(BootNano, One64)
  /\ lastEpoch = NilValue
  /\ ipc = "store"
  /\ untilFire = 0
  /\ tickerC = <<>>
  /\ bpc = "off"
  /\ bgT = Reading(Zero64, 0, Zero64)
  /\ rd = [r \in Readers |-> IdleReader]
  /\ pubs = <<>>
  /\ sinceM = -1
  /\ pubAfterM = FALSE

TimeOperands ==
  /\ tT \in SeedTimes
  /\ tU \in SeedTimes
  /\ tD = Zero64
  /\ tPrev = tT
  /\ tRes = Zero64
  /\ tCmp = [before |-> FALSE, after |-> FALSE, equal |-> FALSE]
  /\ tOp = "none"
  /\ tN = 0

TimeInit == CacheIdle /\ TimeOperands /\ FuncIdle

\* tT = tT.Add(d)
TAdd(d) ==
  /\ tN < MaxOps
  /\ tT' = Add(tT, d)
  /\ tPrev' = tT
  /\ tD' = d
  /\ tOp' = "Add"
  /\ tN' = tN + 1
  /\ UNCHANGED <<tU, tRes, tCmp>>
  /\ UNCHANGED <<cacheVars, funcVars>>

\* tT.Sub(tU)
TSub ==
  /\ tRes' = Sub(tT, tU)
  /\ tOp' = "Sub"
  /\ UNCHANGED <<tT, tU, tD, tPrev, tCmp, tN>>
  /\ UNCHANGED <<cacheVars, funcVars>>

\* tT.Before(tU), tT.After(tU), tT.Equal(tU)
TCompare ==
  /\ tCmp' = [before |-> Before(tT, tU), after |-> After(tT, tU),
              equal |-> Equal(tT, tU)]
  /\ tOp' = "Cmp"
  /\ UNCHANGED <<tT, tU, tD, tPrev, tRes, tN>>
  /\ UNCHANGED <<cacheVars, funcVars>>

TimeNext ==
  \/ \E d \in SeedDurations : TAdd(d)
  \/ TSub
  \/ TCompare

TimeSpec == TimeInit /\ [][TimeNext]_vars

(***************************************************************************)
(* Rounding: a Time made by Now() or by Unix() is moved by Add, Truncate   *)
(* and Round, one after the other.                                         *)
(***************************************************************************)
\* Adds, Truncates and Rounds applied to a Time, with any of the
\* granularities and with those of the short cases of div alone
MaxRounds == 1
MaxChain == 2

\* readings of the clock: inside the packed wall field, and past its end
RoundReadings ==
  { Reading(FromInt(1600000000), 500000000, MonoA),
    Reading(Add64(maxWallUnix, One64), NanosPerSec - 1, MonoB) }

\* seconds for Unix(): 1970, the second before the zero time, and the
\* smallest and the largest seconds since year 1 a Time holds
RoundUnixSecs ==
  { Zero64, Sub64(internalToUnix, One64),
    Sub64(MinInt64, unixToInternal), Sub64(MaxInt64, unixToInternal) }

RoundUnixNsecs == { Zero64, FromInt(-1), FromInt(1500000000) }

RoundAdds == { Neg64(Nanosecond), Add64(Second, Millisecond), maxDuration }

\* granularities: 3ns, 1.5s and the largest Duration (the general case of
\* div), 250ms (2d divides a second), 2s and an hour (whole seconds), and
\* two that are not positive
RoundUnits ==
  { FromInt(3), MulSmall64(Millisecond, 250), MulSmall64(Millisecond, 1500),
    Add64(Second, Second), Hour, maxDuration, Zero64, Neg64(Second) }

RoundInit == CacheIdle /\ TimeIdle /\ FuncIdle

\* tT = Now()
RNow(r) ==
  /\ tOp = "none"
  /\ tT' = Now(r, Sub64(BootNano, One64))
  /\ tOp' = "Now"
  /\ UNCHANGED <<tU, tD, tPrev, tRes, tCmp, tN>>
  /\ UNCHANGED <<cacheVars, funcVars>>

\* tT = Unix(s, n)
RUnix(s, n) ==
  /\ tOp = "none"
  /\ tT' = Unix(s, n)
  /\ tOp' = "Unix"
  /\ UNCHANGED <<tU, tD, tPrev, tRes, tCmp, tN>>
  /\ UNCHANGED <<cacheVars, funcVars>>

\* tT = tT.Add(d), as one of at most max operations on tT
RAdd(d, max) ==
  /\ tOp # "none"
  /\ tN < max
  /\ tT' = Add(tT, d)
  /\ tPrev' = tT
  /\ tD' = d
  /\ tOp' = "Add"
  /\ tN' = tN + 1
  /\ UNCHANGED <<tU, tRes, tCmp>>
  /\ UNCHANGED <<cacheVars, funcVars>>

\* tT = tT.Truncate(d), as one of at most max operations on tT
RTruncate(d, max) ==
  /\ tOp # "none"
  /\ tN < max
  /\ tT' = Truncate(tT, d)
  /\ tPrev' = tT
  /\ tD' = d
  /\ tOp' = "Truncate"
  /\ tN' = tN + 1
  /\ UNCHANGED <<tU, tRes, tCmp>>
  /\ UNCHANGED <<cacheVars, funcVars>>

\* tT = tT.Round(d), as one of at most max operations on tT
RRound(d, max) ==
  /\ tOp # "none"
  /\ tN < max
  /\ tT' = Round(tT, d)
  /\ tPrev' = tT
  /\ tD' = d
  /\ tOp' = "Round"
  /\ tN' = tN + 1
  /\ UNCHANGED <<tU, tRes, tCmp>>
  /\ UNCHANGED <<cacheVars, funcVars>>

RoundNext ==
  \/ \E r \in RoundReadings : RNow(r)
  \/ \E s \in RoundUnixSecs, n \in RoundUnixNsecs : RUnix(s, n)
  \/ \E d \in RoundAdds : RAdd(d, MaxRounds)
  \/ \E d \in RoundUnits : RTruncate(d, MaxRounds)
  \/ \E d \in RoundUnits : RRound(d, MaxRounds)

RoundSpec == RoundInit /\ [][RoundNext]_vars

\* granularities of the short cases of div, and one that is not positive
ChainUnits == { MulSmall64(Millisecond, 250), Add64(Second, Second), Zero64 }

ChainInit == CacheIdle /\ TimeIdle /\ FuncIdle

ChainNext ==
  \/ \E r \in RoundReadings : RNow(r)
  \/ \E s \in RoundUnixSecs, n \in RoundUnixNsecs : RUnix(s, n)
  \/ \E d \in RoundAdds : RAdd(d, MaxChain)
  \/ \E d \in ChainUnits : RTruncate(d, MaxChain)
  \/ \E d \in ChainUnits : RRound(d, MaxChain)

ChainSpec == ChainInit /\ [][ChainNext]_vars

(***************************************************************************)
(* The package's functions of their arguments alone: each is called once   *)
(* on a pair of 64-bit words.                                              *)
(***************************************************************************)
ArgsX ==
  { Zero64, FromInt(3), FromInt(-3), FromInt(9), FromInt(10), FromInt(-1),
    FromInt(1500000), FromInt(NanosPerSec - 1),
    MulSmall64(Second, 3661), MulSmall64(Second, 3600),
    Neg64(Add64(MulSmall64(Second, 3661), MulSmall64(Millisecond, 500))),
    FromInt(1600000000), Sub64(Shl64(One64, 32), One64), Shl64(One64, 32),
    maxWallUnix, Add64(maxWallUnix, One64), Sub64(minWallUnix, One64),
    FromInt(1001), FromInt(-20500), Minute,
    maxDuration, minDuration, Add64(minDuration, One64) }

ArgsY ==
  { Zero64, One64, FromInt(2), FromInt(-1), FromInt(-3),
    FromInt(NanosPerSec - 1), Second, Add64(Second, Second), Hour,
    maxDuration, minDuration }

FuncInit ==
  /\ CacheIdle
  /\ TimeIdle
  /\ fn = "none"
  /\ arg \in [x : ArgsX, y : ArgsY]
  /\ ret = Zero64

\* Duration(arg.x).Truncate(Duration(arg.y))
CallDurationTruncate ==
  /\ fn = "none"
  /\ fn' = "Duration.Truncate"
  /\ ret' = DurationTruncate(arg.x, arg.y)
  /\ UNCHANGED <<arg, cacheVars, operandVars>>

\* Duration(arg.x).Round(Duration(arg.y))
CallDurationRound ==
  /\ fn = "none"
  /\ fn' = "Duration.Round"
  /\ ret' = DurationRound(arg.x, arg.y)
  /\ UNCHANGED <<arg, cacheVars, operandVars>>

\* Unix(arg.x, arg.y)
CallUnix ==
  /\ fn = "none"
  /\ fn' = "Unix"
  /\ ret' = Unix(arg.x, arg.y)
  /\ UNCHANGED <<arg, cacheVars, operandVars>>

\* the clock reading an Epoch() call sees: arg.x seconds since 1970, the last
\* nanosecond of that second, the monotonic counter at arg.y
EpochReading == Reading(arg.x, NanosPerSec - 1, arg.y)

\* Epoch()
CallEpoch ==
  /\ fn = "none"
  /\ fn' = "Epoch"
  /\ ret' = Epoch(EpochReading, Sub64(BootNano, One64))
  /\ UNCHANGED <<arg, cacheVars, operandVars>>

\* Time32(arg.x).AddDate(int(arg.y))
CallAddDate ==
  /\ fn = "none"
  /\ fn' = "AddDate"
  /\ ret' = AddDate(Low32(arg.x), arg.y)
  /\ UNCHANGED <<arg, cacheVars, operandVars>>

\* Duration(arg.x).String()
CallString ==
  /\ fn = "none"
  /\ fn' = "String"
  /\ ret' = String(arg.x)
  /\ UNCHANGED <<arg, cacheVars, operandVars>>

FuncNext ==
  \/ CallString
  \/ CallEpoch
  \/ CallAddDate
  \/ CallUnix
  \/ CallDurationTruncate
  \/ CallDurationRound

FuncSpec == FuncInit /\ [][FuncNext]_vars

(***************************************************************************)
(* The refresh cache: properties.                                          *)
(***************************************************************************)
PubVals == {pubs[i].val : i \in 1..Len(pubs)}

\* the last call of ReuseEpoch by reader r has returned, and r has done
\* nothing since: fresh, at, idx, paired and got belong to that call
Returned(r) == rd[r].hasGot /\ rd[r].pc = "idle"

\* C1: no cached read observes an unset sample.  Package init has published
\* an int64 before the ticker exists, before the refresh goroutine runs and
\* before any ReuseEpoch call; every value stored is an int64, so no Store
\* and no type assertion of ReuseEpoch panics, and what a read returns is a
\* published value.
C1_NoUnsetRead ==
  /\ lastEpoch.kind \in {"nil", "int64"}
  /\ (ipc # "store" \/ untilFire # 0 \/ bpc # "off") => lastEpoch.kind = "int64"
  /\ bpc # "panic"
  /\ \A r \in Readers :
       /\ rd[r].pc # "panic"
       /\ (rd[r].hasGot \/ rd[r].pc = "now") => lastEpoch.kind = "int64"
       /\ rd[r].hasGot => rd[r].got \in PubVals

\* a reader has read the sample a tick published
C1_Witness ==
  \E r \in Readers :
    /\ rd[r].hasGot
    /\ Len(pubs) >= 2
    /\ rd[r].got = pubs[Len(pubs)].val
    /\ pubs[Len(pubs)].by = "tick"

\* C2: after init the refresh goroutine is the only writer.  lastEpoch holds
\* the newest publication whole.  A call of ReuseEpoch that began while
\* publication number at was in lastEpoch returns the whole value of one
\* publication, number idx, which is not older than that one: with one
\* publish during the call it is the previous value or the new one, for each
\* of the readers and however their calls interleave with the publish.  A
\* reader can always take its next step and the writer can always store.
C2_WholePublishedValues ==
  /\ lastEpoch.kind # "nil" => lastEpoch = Int64Value(pubs[Len(pubs)].val)
  /\ \A i \in 1..Len(pubs) : pubs[i].by = (IF i = 1 THEN "init" ELSE "tick")
  /\ \A r \in Readers :
       Returned(r) =>
         /\ 1 <= rd[r].at /\ rd[r].at <= rd[r].idx /\ rd[r].idx <= Len(pubs)
         /\ rd[r].got = pubs[rd[r].idx].val
         /\ rd[r].idx = rd[r].at + 1 =>
              rd[r].got \in {pubs[rd[r].at].val, pubs[rd[r].at + 1].val}
  /\ \A r \in Readers :
       /\ (ipc = "done" /\ rd[r].pc \in {"idle", "now"}) => ENABLED ReuseCall(r)
       /\ rd[r].pc = "call" => ENABLED ReuseEpoch(r)
  /\ bpc = "store" => ENABLED BgStore

\* two readers called ReuseEpoch while the sample of init was in lastEpoch;
\* one loaded before the tick's publish and holds the previous value, the
\* other loaded after it and holds the new one, which differs from the
\* previous one in its high bits
C2_Witness ==
  \E r, q \in Readers :
    /\ r # q
    /\ Returned(r) /\ Returned(q)
    /\ rd[r].at = 1 /\ rd[q].at = 1
    /\ rd[r].idx = 1 /\ rd[q].idx = 2
    /\ Len(pubs) = 2 /\ pubs[2].by = "tick"
    /\ rd[r].got = pubs[1].val /\ rd[q].got = pubs[2].val
    /\ rd[r].got[2] # rd[q].got[2]

\* C3: cached reads never move backward.  The clock of the model never steps
\* back; the claim is that the published values are then non-decreasing and
\* that of two reads in a row the second returns at least the first.
C3_ReadsNeverMoveBackward ==
  /\ \A i \in 1..(Len(pubs) - 1) : LeS64(pubs[i].val, pubs[i + 1].val)
  /\ \A r \in Readers : rd[r].hasPrev => LeS64(rd[r].prev, rd[r].got)

\* C4: a cached read equals the Unix seconds of the Now() reading the caller
\* took just before it.
C4_CachedEqualsFresh ==
  \A r \in Readers :
    (Returned(r) /\ rd[r].paired) => rd[r].got = rd[r].fresh

\* C4 for the readings whose Unix seconds a uint32 holds, where the width of
\* the sample of init plays no part
C4_CachedEqualsFreshInUint32 ==
  \A r \in Readers :
    (Returned(r) /\ rd[r].paired /\ rd[r].fresh = Low32(rd[r].fresh)) =>
      rd[r].got = rd[r].fresh

\* C5: the refresh goroutine never ends and keeps publishing.  Under fair
\* scheduling a tick in the channel is received, a received tick is
\* published, and once the clock is more than one refresh interval past a
\* moment M the published sample is eventually one taken after M.
C5_KeepsPublishing ==
  /\ [](bpc \notin {"exit", "panic"})
  /\ (tickerC # <<>>) ~> (tickerC = <<>>)
  /\ (bpc = "store") ~> (bpc = "recv")
  /\ (sinceM > StepsPerInterval) ~> pubAfterM

\* past the horizon, more than an interval after M, a sample taken after M
\* is the published one
C5_Witness ==
  /\ elapsed = MaxSteps
  /\ sinceM > StepsPerInterval
  /\ pubAfterM
  /\ bpc = "recv"
  /\ Len(pubs) >= 2

(***************************************************************************)
(* Time arithmetic: properties, checked under TimeSpec.                    *)
(***************************************************************************)
Saturated(d) == d = minDuration \/ d = maxDuration

\* C6 as stated: whenever d = t.Sub(u) is neither minDuration nor
\* maxDuration, u.Add(d).Equal(t) is true, for all t and u.
C6_SubAddRoundTrip ==
  (tOp = "Sub" /\ ~Saturated(tRes)) => Equal(Add(tU, tRes), tT)

\* C6 amended: whenever d = t.Sub(u) is neither minDuration nor maxDuration,
\* and u.Add(d) still carries a monotonic offset in the case that t and u
\* both carry one, u.Add(d).Equal(t) is true.
C6_SubAddRoundTripWhileMonoKept ==
  (/\ tOp = "Sub"
   /\ ~Saturated(tRes)
   /\ (HasMono(tT) /\ HasMono(tU)) => HasMono(Add(tU, tRes)))
  => Equal(Add(tU, tRes), tT)

\* C6 witness: two readings of one session whose wall fields agree while the
\* monotonic readings are a second apart; the difference added back to the
\* second operand compares equal to the first.
C6_Witness ==
  /\ tOp = "Sub"
  /\ HasMono(tT) /\ HasMono(tU)
  /\ sec(tT) = sec(tU) /\ nsec(tT) = nsec(tU)
  /\ tRes = Second
  /\ HasMono(Add(tU, tRes))
  /\ Equal(Add(tU, tRes), tT)

\* The magnitude of a - b for a >= b given as (seconds, nanoseconds) pairs,
\* as an unsigned 64-bit word, or "over" when it is far above 2^63.
Magnitude(as, an, bs, bn) ==
  LET diff == Sub64(as, bs)
  IN  IF LtU64(FromInt(2000000000), Shr64(diff, 3))
        THEN [over |-> TRUE, val |-> Zero64]
        ELSE [over |-> FALSE,
              val |-> Add64(Mul64(diff, Second), FromInt(an - bn))]

\* The true difference t - u in nanoseconds, saturated to the Duration range.
TrueDifference(t, u) ==
  IF HasMono(t) /\ HasMono(u)
    THEN LET d == Sub64(t.ext, u.ext)
         IN  IF IsNeg64(u.ext) /\ ~IsNeg64(t.ext) /\ IsNeg64(d) THEN maxDuration
             ELSE IF IsNeg64(t.ext) /\ ~IsNeg64(u.ext) /\ ~IsNeg64(d)
               THEN minDuration
             ELSE d
    ELSE IF LtS64(sec(u), sec(t)) \/ (sec(t) = sec(u) /\ nsec(t) >= nsec(u))
      THEN LET m == Magnitude(sec(t), nsec(t), sec(u), nsec(u))
           IN  IF m.over \/ IsNeg64(m.val) THEN maxDuration ELSE m.val
      ELSE LET m == Magnitude(sec(u), nsec(u), sec(t), nsec(t))
           IN  IF m.over \/ LtU64(minDuration, m.val) THEN minDuration
               ELSE Neg64(m.val)

\* C7 as stated: t.Sub(u) is maxDuration when the true difference is above
\* the largest Duration, minDuration when it is below the smallest, and the
\* exact difference otherwise, on the monotonic and on the wall-clock path.
C7_SubSaturates ==
  tOp = "Sub" => tRes = TrueDifference(tT, tU)

\* The same comparison carried out on seconds first, then nanoseconds.
WallBefore(t, u) ==
  LtS64(sec(t), sec(u)) \/ (sec(t) = sec(u) /\ nsec(t) < nsec(u))

\* t with its wall seconds and nanoseconds cleared, the offset kept.
MonoView(t) == Time(hasMonotonic, t.ext)

\* C8: when both operands carry a monotonic offset, Before, After, Equal and
\* Sub depend on the two offsets alone (the operands' wall fields do not
\* matter); when one of them carries none, the results are those of the wall
\* seconds first and then the nanoseconds, whatever offset the other carries.
C8_DualPath ==
  (tOp = "Cmp" \/ tOp = "Sub") =>
    IF HasMono(tT) /\ HasMono(tU)
      THEN /\ tOp = "Cmp" =>
                /\ tCmp.before = LtS64(tT.ext, tU.ext)
                /\ tCmp.after = LtS64(tU.ext, tT.ext)
                /\ tCmp.equal = (tT.ext = tU.ext)
           /\ tOp = "Sub" => tRes = Sub(MonoView(tT), MonoView(tU))
      ELSE /\ tOp = "Cmp" =>
                /\ tCmp.before = WallBefore(tT, tU)
                /\ tCmp.after = WallBefore(tU, tT)
                /\ tCmp.equal = (~WallBefore(tT, tU) /\ ~WallBefore(tU, tT))
           /\ tOp = "Sub" => tRes = Sub(stripMono(tT), stripMono(tU))

\* C8 witness: both operands carry offsets, the wall fields say "equal" and
\* the offsets say "after"; and the comparison said "after".
C8_Witness ==
  /\ tOp = "Cmp"
  /\ HasMono(tT) /\ HasMono(tU)
  /\ sec(tT) = sec(tU) /\ nsec(tT) = nsec(tU)
  /\ LtS64(tU.ext, tT.ext)
  /\ tCmp.after /\ ~tCmp.equal

\* The wall fields of t1 are those of t0 moved by d nanoseconds.
WallMovedBy(t0, t1, d) ==
  LET ds == Sub64(sec(t1), sec(t0))
  IN  /\ nsec(t1) >= 0 /\ nsec(t1) < NanosPerSec
      /\ LeS64(Sub64(Quo1e9(d), One64), ds)
      /\ LeS64(ds, Add64(Quo1e9(d), One64))
      /\ Add64(Mul64(ds, Second), FromInt(nsec(t1) - nsec(t0))) = d

\* Adding d to the offset e leaves the signed 64-bit range.
MonoOverflows(e, d) ==
  /\ IsNeg64(e) = IsNeg64(d)
  /\ IsNeg64(Add64(e, d)) # IsNeg64(e)

\* The wall seconds s do not fit the packed 33-bit field.
OutsidePacked(s) == LtS64(s, minWall) \/ LtS64(maxWall, s)

\* C9: for t carrying a monotonic offset, t.Add(d) is wall-only exactly when
\* adding d overflows the offset or moves the wall seconds out of the packed
\* range; otherwise its offset is t's plus d; in both cases its wall fields
\* are t's moved by d.
C9_AddDegrades ==
  (tOp = "Add" /\ HasMono(tPrev)) =>
    /\ WallMovedBy(tPrev, tT, tD)
    /\ HasMono(tT) = ~(MonoOverflows(tPrev.ext, tD) \/ OutsidePacked(sec(tT)))
    /\ HasMono(tT) => tT.ext = Add64(tPrev.ext, tD)
    /\ ~HasMono(tT) => tT.ext = sec(tT)

\* C9 witness: the wall seconds stay inside the packed range, the offset
\* overflows, and the result is wall-only.
C9_Witness ==
  /\ tOp = "Add"
  /\ HasMono(tPrev)
  /\ MonoOverflows(tPrev.ext, tD)
  /\ ~OutsidePacked(sec(tT))
  /\ ~HasMono(tT)
  /\ tD # Zero64

\* The whole seconds Add moves the seconds field by.
SecondsMoved(t, d) ==
  LET n == nsec(t) + Rem1e9(d)
  IN  IF n >= NanosPerSec THEN Add64(Quo1e9(d), One64)
      ELSE IF n < 0 THEN Sub64(Quo1e9(d), One64)
      ELSE Quo1e9(d)

\* C10 as stated: when t.Add(d) ends wall-only and the seconds since year 1
\* would pass the largest or the smallest int64, the seconds field is that
\* largest or smallest value; it never wraps to the other end.
C10_AddNeverWraps ==
  (tOp = "Add" /\ ~HasMono(tT)) =>
    LET s0 == sec(tPrev)
        ds == SecondsMoved(tPrev, tD)
        s1 == Add64(s0, ds)
    IN  IF ~IsNeg64(s0) /\ ~IsNeg64(ds) /\ IsNeg64(s1) THEN sec(tT) = MaxInt64
        ELSE IF IsNeg64(s0) /\ IsNeg64(ds) /\ ~IsNeg64(s1)
          THEN sec(tT) = MinInt64
        ELSE sec(tT) = s1


(***************************************************************************)
(* Functions of their arguments: properties, checked under FuncSpec.       *)
(***************************************************************************)
\* t has a nanosecond field n in [0, 999999999] and Unix seconds that differ
\* from s, modulo 2^64, by the whole seconds q with q*1e9 + n = ns.
NormalisedFrom(t, s, ns) ==
  LET q == Sub64(UnixOf(t), s)
  IN  /\ nsec(t) >= 0 /\ nsec(t) < NanosPerSec
      /\ LeS64(Sub64(Quo1e9(ns), One64), q)
      /\ LeS64(q, Add64(Quo1e9(ns), One64))
      /\ Add64(Mul64(q, FromInt(NanosPerSec)), FromInt(nsec(t))) = ns

\* The Unix seconds of t are s plus whole seconds as integers: the sum did
\* not leave the int64 range.
SecondsExact(t, s) ==
  LET q == Sub64(UnixOf(t), s)
  IN  ~(IsNeg64(s) = IsNeg64(q) /\ IsNeg64(UnixOf(t)) # IsNeg64(s))

\* C11 as stated: for every sec and nsec, Unix(sec, nsec) has a nanosecond
\* field n in [0, 999999999] and Unix seconds s with s*1e9 + n =
\* sec*1e9 + nsec; and Unix(10, -1) equals Unix(9, 999999999).
C11_UnixNormalizes ==
  fn = "Unix" =>
    /\ NormalisedFrom(ret, arg.x, arg.y)
    /\ SecondsExact(ret, arg.x)
    /\ Unix(FromInt(10), FromInt(-1)) = Unix(FromInt(9), FromInt(NanosPerSec - 1))

\* C11 amended: for every sec and nsec, Unix(sec, nsec) has a nanosecond
\* field n in [0, 999999999] and Unix seconds s = sec + floor(nsec / 1e9) in
\* wrapping 64-bit arithmetic; and Unix(10, -1) equals Unix(9, 999999999).
C11_UnixNormalizesModulo ==
  fn = "Unix" =>
    /\ NormalisedFrom(ret, arg.x, arg.y)
    /\ Unix(FromInt(10), FromInt(-1)) = Unix(FromInt(9), FromInt(NanosPerSec - 1))
    /\ Equal(Unix(FromInt(10), FromInt(-1)),
             Unix(FromInt(9), FromInt(NanosPerSec - 1)))

\* C11 witness: Unix(10, -1) borrowed a second: 9 s and 999999999 ns.
C11_Witness ==
  /\ fn = "Unix"
  /\ arg.x = FromInt(10) /\ arg.y = FromInt(-1)
  /\ UnixOf(ret) = FromInt(9)
  /\ nsec(ret) = NanosPerSec - 1

\* v is a multiple of m, m > 0, at distance at most m/2 from d, and on a tie
\* it is the one away from zero.
NearestMultiple(v, d, m) ==
  LET dist == Abs64(Sub64(v, d))
  IN  /\ Rem64(v, m) = Zero64
      /\ ~IsNeg64(dist)
      /\ ~LtU64(m, Add64(dist, dist))
      /\ Add64(dist, dist) = m => LtU64(Abs64(d), Abs64(v))

\* C16 as stated: d.Round(m) is d for m <= 0, and for m > 0 a multiple of m
\* nearest to d, a tie going away from zero, for all d.
C16_RoundNearest ==
  fn = "Duration.Round" =>
    IF ~LtS64(Zero64, arg.y) THEN ret = arg.x
    ELSE NearestMultiple(ret, arg.x, arg.y)

\* The multiple Round is to return lies above maxDuration.
RoundsPastMax(d, m) ==
  LET r == Rem64(d, m)
  IN  /\ ~IsNeg64(d)
      /\ ~LtU64(Add64(r, r), m)
      /\ LtS64(Sub64(maxDuration, d), Sub64(m, r))

\* The multiple Round is to return lies below minDuration.
RoundsPastMin(d, m) ==
  LET r == Neg64(Rem64(d, m))
  IN  /\ IsNeg64(d)
      /\ ~LtU64(Add64(r, r), m)
      /\ LtS64(Sub64(d, minDuration), Sub64(m, r))

\* C16 amended: d.Round(m) is d for m <= 0; for m > 0 it is the multiple of m
\* nearest to d, a tie going away from zero, when that multiple is a Duration,
\* maxDuration when the multiple lies above maxDuration and minDuration when
\* it lies below minDuration.
C16_RoundNearestOrSaturated ==
  fn = "Duration.Round" =>
    IF ~LtS64(Zero64, arg.y) THEN ret = arg.x
    ELSE IF RoundsPastMax(arg.x, arg.y) THEN ret = maxDuration
    ELSE IF RoundsPastMin(arg.x, arg.y) THEN ret = minDuration
    ELSE NearestMultiple(ret, arg.x, arg.y)

\* C16 witness: a negative d halfway between two multiples of m was rounded
\* to the one further from zero.
C16_Witness ==
  /\ fn = "Duration.Round"
  /\ LtS64(Zero64, arg.y)
  /\ IsNeg64(arg.x)
  /\ Add64(Sub64(arg.x, ret), Sub64(arg.x, ret)) = arg.y
  /\ LtS64(ret, arg.x)

\* C17: for m > 0, d.Truncate(m) is a multiple of m between 0 and d
\* inclusive and less than m away from d; for m <= 0 it is d.
C17_TruncateTowardZero ==
  fn = "Duration.Truncate" =>
    IF ~LtS64(Zero64, arg.y) THEN ret = arg.x
    ELSE /\ Rem64(ret, arg.y) = Zero64
         /\ IF IsNeg64(arg.x)
              THEN LeS64(arg.x, ret) /\ LeS64(ret, Zero64)
              ELSE LeS64(Zero64, ret) /\ LeS64(ret, arg.x)
         /\ LtU64(Abs64(Sub64(arg.x, ret)), arg.y)

\* C17 witness: a negative d that is no multiple of m was truncated to a
\* multiple other than zero.
C17_Witness ==
  /\ fn = "Duration.Truncate"
  /\ LtS64(Zero64, arg.y)
  /\ IsNeg64(arg.x)
  /\ ret # arg.x
  /\ ret # Zero64


\* v fits an unsigned 32-bit value.
InUint32(v) == v = Low32(v)

\* C19: Epoch() is the reading's Unix seconds modulo 2^32, and for Unix
\* seconds in [0, 2^32) it equals Now().Unix() of the same reading.
C19_EpochIsUnixSeconds32 ==
  fn = "Epoch" =>
    /\ ret = Low32(arg.x)
    /\ InUint32(arg.x) =>
         ret = UnixOf(Now(EpochReading, Sub64(BootNano, One64)))

\* C19 witness: at the last second an unsigned 32-bit value holds, Epoch()
\* returned Now().Unix().
C19_Witness ==
  /\ fn = "Epoch"
  /\ arg.x = Sub64(Shl64(One64, 32), One64)
  /\ HasMono(Now(EpochReading, Sub64(BootNano, One64)))
  /\ ret = UnixOf(Now(EpochReading, Sub64(BootNano, One64)))
  /\ ret = arg.x

RECURSIVE DayShift(_, _)
\* the Time32 t moved by n days, a day at a time
DayShift(t, n) ==
  IF n = 0 THEN t
  ELSE IF n > 0 THEN DayShift(Low32(Add64(t, FromInt(86400))), n - 1)
  ELSE DayShift(Low32(Sub64(t, FromInt(86400))), n + 1)

\* C20: t.AddDate(n) is t + 86400*n when that lies in [0, 2^32), that sum
\* modulo 2^32 otherwise, and t.AddDate(n).AddDate(-n) is t.
C20_AddDateShiftsDays ==
  fn = "AddDate" =>
    LET t == Low32(arg.x)
        n == arg.y
        few == LeS64(FromInt(-3), n) /\ LeS64(n, FromInt(3))
    IN  /\ InUint32(ret)
        /\ ret = Low32(Add64(t, Mul64(Low32(n), FromInt(86400))))
        /\ few => ret = DayShift(t, ToInt(n))
        /\ (few /\ InUint32(Add64(t, FromInt(86400 * ToInt(n)))))
             => ret = Add64(t, FromInt(86400 * ToInt(n)))
        /\ AddDate(ret, Neg64(n)) = t

\* C20 witness: two days after 1600000000 is 1600172800.
C20_Witness ==
  /\ fn = "AddDate"
  /\ arg.x = FromInt(1600000000)
  /\ arg.y = FromInt(2)
  /\ ret = FromInt(1600172800)


RECURSIVE Decimal(_)
\* the decimal digits of the natural number n, most significant first
Decimal(n) ==
  IF n < 10 THEN <<DigitByte(n)>> ELSE Decimal(n \div 10) \o <<DigitByte(n % 10)>>

RECURSIVE Padded(_, _)
\* the decimal digits of f, padded with zeros on the left to width digits
Padded(f, width) ==
  IF width = 0 THEN <<>>
  ELSE Padded(f \div 10, width - 1) \o <<DigitByte(f % 10)>>

RECURSIVE NoTrailingZeros(_)
\* the digits without the zeros at the end
NoTrailingZeros(digits) ==
  IF digits # <<>> /\ digits[Len(digits)] = "0"
    THEN NoTrailingZeros(SubSeq(digits, 1, Len(digits) - 1))
    ELSE digits

\* "." and the digits of f / 10^width without trailing zeros; nothing for 0
Fraction(f, width) ==
  IF f = 0 THEN <<>> ELSE <<".">> \o NoTrailingZeros(Padded(f, width))

\* the rendering of the magnitude u, a uint64 of nanoseconds
Magnitude18(u) ==
  LET whole == DivMod1e9U(u)
      n == whole.r
      hm == DivModU64(whole.q, FromInt(3600))
      h == ToInt(hm.q)
      m == ToInt(hm.r) \div 60
      s == ToInt(hm.r) % 60
  IN  IF u = Zero64 THEN <<"0", "s">>
      ELSE IF whole.q = Zero64
        THEN IF n < 1000 THEN Decimal(n) \o <<"n", "s">>
             ELSE IF n < 1000000
               THEN Decimal(n \div 1000) \o Fraction(n % 1000, 3)
                      \o MicroSign \o <<"s">>
             ELSE Decimal(n \div 1000000) \o Fraction(n % 1000000, 6)
                    \o <<"m", "s">>
        ELSE (IF h > 0 THEN Decimal(h) \o <<"h">> ELSE <<>>)
               \o (IF h > 0 \/ m > 0 THEN Decimal(m) \o <<"m">> ELSE <<>>)
               \o Decimal(s) \o Fraction(n, 9) \o <<"s">>

\* C18: Duration.String renders zero as "0s", a magnitude below a second in
\* the largest of ns/µs/ms with a non-zero leading digit and no trailing
\* zeros, a second or more as hours, minutes and seconds with leading zero
\* units omitted, and a negative duration as "-" and its magnitude.
C18_StringRenders ==
  fn = "String" =>
    LET d == arg.x
        u == Abs64(d)
        body == IF IsNeg64(d) THEN Tail(ret) ELSE ret
    IN  /\ ret = (IF IsNeg64(d) THEN <<"-">> ELSE <<>>) \o Magnitude18(u)
        /\ IsNeg64(d) => Head(ret) = "-"
        /\ (IsNeg64(d) /\ d # minDuration) => body = String(Neg64(d))
        /\ d = Zero64 => ret = <<"0", "s">>
        /\ (u # Zero64 /\ LtU64(u, Second)) =>
             /\ Head(body) \in {"1", "2", "3", "4", "5", "6", "7", "8", "9"}
             /\ body[Len(body) - 2] # "0" \/ \A i \in 1..Len(body) : body[i] # "."
        /\ d = FromInt(1500000) => ret = <<"1", ".", "5", "m", "s">>
        /\ d = MulSmall64(Second, 3661) => ret = <<"1", "h", "1", "m", "1", "s">>
        /\ d = Hour => ret = <<"1", "h", "0", "m", "0", "s">>
        /\ d = Minute => ret = <<"1", "m", "0", "s">>
        /\ d = minDuration =>
             ret = <<"-", "2", "5", "6", "2", "0", "4", "7", "h", "4", "7", "m",
                     "1", "6", ".", "8", "5", "4", "7", "7", "5", "8", "0", "8",
                     "s">>

\* C18 witness: 1500000 ns was rendered "1.5ms".
C18_Witness ==
  /\ fn = "String"
  /\ arg.x = FromInt(1500000)
  /\ ret = <<"1", ".", "5", "m", "s">>


(***************************************************************************)
(* Rounding: properties.                                                   *)
(***************************************************************************)
\* C12: the nanosecond field of every Time made by Now() or Unix() and moved
\* by any sequence of Add, Truncate and Round is in [0, 999999999].
C12_NanosecondInRange ==
  tOp # "none" => nsec(tT) \in 0..(NanosPerSec - 1)

\* C12 witness: the last operation of a chain was an Add that carried a
\* full second of nanoseconds into the seconds.
C12_Witness ==
  /\ tOp = "Add"
  /\ tN = MaxChain
  /\ nsec(tPrev) + Rem1e9(tD) >= NanosPerSec
  /\ nsec(tT) = nsec(tPrev) + Rem1e9(tD) - NanosPerSec

\* (a + b) mod d for a, b < d < 2^63
AddMod(a, b, d) ==
  LET sum == Add64(a, b) IN IF LtU64(sum, d) THEN sum ELSE Sub64(sum, d)

\* (10 * a) mod d for a < d < 2^63
TimesTen(a, d) ==
  LET two == AddMod(a, a, d)
      four == AddMod(two, two, d)
      five == AddMod(four, a, d)
  IN  AddMod(five, five, d)

RECURSIVE TimesTenPower(_, _, _)
\* (10^n * a) mod d for a < d < 2^63
TimesTenPower(a, n, d) ==
  IF n = 0 THEN a
  ELSE LET next == TimesTen(a, d)
       IN  IF LtU64(next, d) THEN TimesTenPower(next, n - 1, d) ELSE Zero64

\* t's offset from the zero time, sec(t) * 1e9 + nsec(t) nanoseconds, is an
\* exact multiple of d, for d > 0
IsMultiple(t, d) ==
  LET whole == TimesTenPower(DivModU64(Abs64(sec(t)), d).r, 9, d)
      part == DivModU64(FromInt(nsec(t)), d).r
  IN  IF IsNeg64(sec(t)) THEN whole = part
      ELSE AddMod(whole, part, d) = Zero64

\* the nanoseconds from u to t, for t not before u
Since(t, u) == Magnitude(sec(t), nsec(t), sec(u), nsec(u))

\* t.Truncate(d) = res as the claim states it
TruncatedTo(t, d, res) ==
  IF LtS64(Zero64, d)
    THEN /\ ~WallBefore(t, res)
         /\ ~Since(t, res).over
         /\ LtU64(Since(t, res).val, d)
         /\ IsMultiple(res, d)
    ELSE sec(res) = sec(t) /\ nsec(res) = nsec(t)

\* t.Round(d) = res as the claim states it: a multiple of d, less than d/2
\* before t or at most d/2 after it
RoundedTo(t, d, res) ==
  IF LtS64(Zero64, d)
    THEN /\ IsMultiple(res, d)
         /\ IF WallBefore(t, res)
              THEN /\ ~Since(res, t).over
                   /\ LtU64(Since(res, t).val, d)
                   /\ ~LtU64(d, Add64(Since(res, t).val, Since(res, t).val))
              ELSE /\ ~Since(t, res).over
                   /\ LtU64(Since(t, res).val, d)
                   /\ LtU64(Add64(Since(t, res).val, Since(t, res).val), d)
    ELSE sec(res) = sec(t) /\ nsec(res) = nsec(t)

\* the seconds of t are more than a Duration away from both ends of the
\* int64 range
AwayFromEnds(t) ==
  /\ LtS64(Add64(MinInt64, Add64(Quo1e9(maxDuration), One64)), sec(t))
  /\ LtS64(sec(t), Sub64(MaxInt64, Add64(Quo1e9(maxDuration), One64)))

\* C13: for d > 0, t.Truncate(d) is not after t, less than d before t and
\* an exact multiple of d from the zero time; for d <= 0 it has the seconds
\* and nanoseconds of t.
C13_TruncateRoundsDown ==
  tOp = "Truncate" => TruncatedTo(tPrev, tD, tT)

\* C13, for the Times away from the ends of the range: there Truncate is as
\* the claim states it.
C13_TruncateAwayFromEnds ==
  (tOp = "Truncate" /\ AwayFromEnds(tPrev)) => TruncatedTo(tPrev, tD, tT)

\* C13, a case away from the ends: a Time before the zero time, with a
\* monotonic reading or without, was truncated to 1.5s.
C13_Witness ==
  /\ tOp = "Truncate"
  /\ AwayFromEnds(tPrev)
  /\ tD = MulSmall64(Millisecond, 1500)
  /\ IsNeg64(sec(tPrev))
  /\ tT # stripMono(tPrev)
  /\ TruncatedTo(tPrev, tD, tT)

\* C14: for d > 0, t.Round(d) is the multiple of d nearest to t, the later
\* one for a t halfway between two; for d <= 0 it has the seconds and
\* nanoseconds of t.
C14_RoundsToNearest ==
  tOp = "Round" => RoundedTo(tPrev, tD, tT)

\* C14, for the Times away from the ends of the range: there Round is as the
\* claim states it.
C14_RoundAwayFromEnds ==
  (tOp = "Round" /\ AwayFromEnds(tPrev)) => RoundedTo(tPrev, tD, tT)

\* C14, a case away from the ends: a Time halfway between two multiples of
\* d was rounded up to the later one.
C14_Witness ==
  /\ tOp = "Round"
  /\ AwayFromEnds(tPrev)
  /\ LtS64(Zero64, tD)
  /\ WallBefore(tPrev, tT)
  /\ Add64(Since(tT, tPrev).val, Since(tT, tPrev).val) = tD
  /\ RoundedTo(tPrev, tD, tT)

\* C15: a Time returned by Unix, Truncate or Round carries no monotonic
\* offset, whatever its input and Duration argument; comparing it or
\* subtracting from it takes the wall-clock path.
C15_NoMonotonicAfterRounding ==
  (tOp = "Unix" \/ tOp = "Truncate" \/ tOp = "Round") =>
    /\ ~HasMono(tT)
    /\ \A u \in {Now(r, Sub64(BootNano, One64)) : r \in RoundReadings} \cup {tPrev} :
         /\ Before(tT, u) = WallBefore(tT, u)
         /\ After(tT, u) = WallBefore(u, tT)
         /\ Equal(tT, u) = (sec(tT) = sec(u) /\ nsec(tT) = nsec(u))
         /\ Sub(tT, u) = Sub(tT, stripMono(u))

\* C15 witness: a Time with a monotonic offset was truncated to a positive
\* Duration and the result carries none.
C15_Witness ==
  /\ tOp = "Truncate"
  /\ HasMono(tPrev)
  /\ LtS64(Zero64, tD)
  /\ ~HasMono(tT)


(***************************************************************************)
(* Sub and the comparisons.                                                *)
(***************************************************************************)
\* exactly one of the three holds
ExactlyOne(a, b, c) ==
  (a /\ ~b /\ ~c) \/ (~a /\ b /\ ~c) \/ (~a /\ ~b /\ c)

\* the sign of the Duration d is that of the comparisons of t with u
SignAgrees(d, t, u) ==
  /\ IsNeg64(d) <=> Before(t, u)
  /\ LtS64(Zero64, d) <=> After(t, u)
  /\ d = Zero64 <=> Equal(t, u)

\* C21: t.Sub(u) < 0 exactly when t.Before(u), > 0 exactly when t.After(u)
\* and = 0 exactly when t.Equal(u), for operands with and without monotonic
\* offsets and for saturated results; exactly one of Before, After and Equal
\* holds.
C21_SubSignAgrees ==
  /\ tOp = "Sub" => SignAgrees(tRes, tT, tU)
  /\ tOp = "Cmp" => ExactlyOne(tCmp.before, tCmp.after, tCmp.equal)


\* C21, where Sub returns the true difference, saturated: there its sign
\* is that of the comparisons.
C21_SignAgreesWhereSubIsTrue ==
  (tOp = "Sub" /\ tRes = TrueDifference(tT, tU)) => SignAgrees(tRes, tT, tU)

\* C21, the comparisons alone: exactly one of Before, After and Equal holds.
C21_ExactlyOneComparison ==
  tOp = "Cmp" => ExactlyOne(tCmp.before, tCmp.after, tCmp.equal)

\* C21, a case where Sub is right: a saturated negative difference between
\* two Times without monotonic offsets, and t is before u.
C21_Witness ==
  /\ tOp = "Sub"
  /\ ~HasMono(tT) /\ ~HasMono(tU)
  /\ tRes = minDuration
  /\ tRes = TrueDifference(tT, tU)
  /\ SignAgrees(tRes, tT, tU)

====
